---- MODULE Spec2Model ----
(***************************************************************************)
(* Model of supabase/functions/convert-to-cad/index.ts: the request        *)
(* handler that drives one cad_conversions row through the CAD service     *)
(* and the "cad-files" storage bucket.                                     *)
(*                                                                         *)
(* Every await of the handler is one atomic step of an invocation; the     *)
(* synchronous code that follows an await up to the next one belongs to    *)
(* the same step.  The job store, the spec tables and the bucket are       *)
(* shared by all invocations.  supabase-js calls do not throw: they        *)
(* resolve to {data, error}, so a store or storage failure is an outcome   *)
(* of the call that the handler sees only if it inspects `error`.          *)
(***************************************************************************)
EXTENDS Integers, Sequences, FiniteSets, TLC

VARIABLES jobs, gemstone_specs, metal_specs, bucket, inv, started, faults,
          lastFinal, first

\* jobs, gemstone_specs, metal_specs: the three tables; bucket: the objects of
\* "cad-files"; inv: the locals of the invocations in flight; started, faults:
\* the requests served and the calls rejected so far.  lastFinal and first
\* are history variables: the outcome of the latest final status write per
\* job, and what the first invocation of a pair of invocations did

vars == <<jobs, gemstone_specs, metal_specs, bucket, inv, started, faults,
          lastFinal, first>>

(* ---------------------------- bounds ----------------------------------- *)
\* total number of requests served in one behaviour
MaxInv == 2
\* total number of store / storage calls that report an error
MaxFaults == 1

\* the invocations that may be in flight at the same time
Slots == {1, 2}

(* ---------------------------- values ----------------------------------- *)
UNDEFINED == "undefined"
NoUrl == <<>>
NoError == <<>>
NoTime == 0

\* the ids for which cad_conversions has a row before the handler runs
JobIds == {"a", "b"}

\* the JSON objects that occur as request bodies; "x" never names a row of
\* cad_conversions, UNDEFINED is a field the body lacks
Requests == {[conversionId |-> "a", userId |-> "u1"],
             [conversionId |-> "b", userId |-> UNDEFINED],
             [conversionId |-> "x", userId |-> "u1"],
             [conversionId |-> UNDEFINED, userId |-> "u1"],
             [conversionId |-> UNDEFINED, userId |-> UNDEFINED]}
Methods == {"OPTIONS", "GET", "POST"}
\* req.json(): rejects ("invalid"), yields null ("null") or yields an object
BodyKinds == {"invalid", "null", "object"}
SvgUrl == "https://x/vec.svg"
CadErrorBody == "cad exploded"

\* the empty string in place of a URL counts as a URL
Truthy_NotUndefined(v) == v # UNDEFINED

\* JavaScript truthiness of the string-or-undefined values used here
Truthy(v) == v \notin {UNDEFINED, ""}

\* Number(v) on a column value, in hundredths: numeric text parses, anything
\* else is NaN
NaN == -1
Number(v) == CASE v = "5.2" -> 520
               [] v = "1.5" -> 150
               [] v = "0.25" -> 25
               [] OTHER -> NaN

(* ---------------------------- constants of the handler ----------------- *)
CORS == [origin |-> "*",
         headers |-> "authorization, x-client-info, apikey, content-type",
         methods |-> "POST, OPTIONS"]
JsonCORS == [origin |-> "*",
             headers |-> "authorization, x-client-info, apikey, content-type",
             methods |-> "POST, OPTIONS",
             contentType |-> "application/json"]
NoHeaders == [origin |-> "none"]

Formats == {"step", "stl", "obj"}
CadTimeoutMs == 300000

\* every format stored under the path of the STEP file
ObjectPath_StepOnly(fmt, id) == <<"step", "design", id, "step">>

\* `${fmt}/design_${conversionId}.${fmt}` in the bucket "cad-files"
ObjectPath(fmt, id) == <<fmt, "design", id, fmt>>

\* bucket.getPublicUrl(path).data.publicUrl: built locally, never fails
getPublicUrl(path) == <<"public", "cad-files">> \o path

\* new Error(msg) / a thrown DOMException: name, fixed text, interpolated text
Err(name, msg, detail) == <<name, msg, detail>>
\* String(err): `${name}: ${message}`
String(err) == <<err[1], ": ", err[2] , err[3]>>

(* ---------------------------- the stores ------------------------------- *)
\* a row of cad_conversions as the upstream steps leave it
JobRow(status, step, svg) ==
  [status |-> status, current_step |-> step, vectorized_svg_url |-> svg,
   cad_file_url |-> NoUrl, stl_file_url |-> NoUrl, obj_file_url |-> NoUrl,
   completed_at |-> NoTime, error_message |-> NoError]

GemRow == [shape |-> "round", mm_size |-> "1.5", dia_wt |-> "0.25",
           quantity |-> 2, setting_type |-> "prong"]
MetalRow == [color |-> "yellow", karat |-> 18, gold_weight |-> "5.2",
             tone |-> "warm"]

\* what exists before the handler runs: job "a" has its vector artifact and
\* 0, 1 or 2 metal rows; job "b" has no vector artifact yet
MetalRowsOfA == {0, 1, 2}
InitA == JobRow("pending", 2, SvgUrl)
InitB == JobRow("pending", 1, "")

\* the write done as an upsert: a row that does not exist is created
UpdateJob_Upsert(js, id, fields) ==
  [j \in DOMAIN js \cup {id} |->
     LET old == IF j \in DOMAIN js THEN js[j] ELSE JobRow("pending", 0, "")
     IN IF j = id
          THEN [k \in DOMAIN old |->
                  IF k \in DOMAIN fields THEN fields[k] ELSE old[k]]
          ELSE old]

\* the update without its .eq("id", id) filter: every row is changed
UpdateJob_NoFilter(js, id, fields) ==
  [j \in DOMAIN js |->
     [k \in DOMAIN js[j] |-> IF k \in DOMAIN fields THEN fields[k] ELSE js[j][k]]]

\* supabase update(...).eq("id", id): changes the matching row, if any
UpdateJob(js, id, fields) ==
  IF id \in DOMAIN js
    THEN [js EXCEPT ![id] =
            [k \in DOMAIN @ |-> IF k \in DOMAIN fields THEN fields[k] ELSE @[k]]]
    ELSE js

\* bucket.upload(path, blob, {upsert: true}): creates or overwrites
Upload(b, path, blob) ==
  [p \in DOMAIN b \cup {path} |-> IF p = path THEN blob ELSE b[p]]

\* the read without .single(): data is the (truthy) array of rows, which has
\* none of the columns
Single_List(rows) ==
  <<[color |-> UNDEFINED, karat |-> UNDEFINED, gold_weight |-> UNDEFINED,
     tone |-> UNDEFINED]>>

\* .select("*").eq(...).single(): data only when exactly one row matches;
\* <<>> stands for data: null
Single(rows) == IF Len(rows) = 1 THEN rows ELSE <<>>

(* ---------------------------- invocations ------------------------------ *)
Idle == [pc |-> "idle", method |-> "none", bodyKind |-> "none",
         body |-> <<>>, conversionId |-> UNDEFINED, userId |-> UNDEFINED,
         svgUrl |-> "", gemSpecs |-> <<>>, metalSpecs |-> <<>>,
         cadReq |-> <<>>, cadJson |-> <<>>, urls |-> <<>>,
         err |-> NoError, resp |-> [status |-> 0],
         eff |-> <<>>, failed |-> {}, cad |-> "none", seen |-> "none"]

Running(i) == inv[i].pc \notin {"idle", "done"}

\* invocation i continues as r; the locals of an invocation that has returned
\* its response are gone at the next step of the system
Becomes(i, r) ==
  inv' = [j \in Slots |-> IF j = i THEN r
                          ELSE IF Running(j) THEN inv[j] ELSE Idle]

\* outcome of one store / storage call: TRUE it succeeds, FALSE it reports
\* an error
CallOutcomes == IF faults < MaxFaults THEN {TRUE, FALSE} ELSE {TRUE}
Charge(ok) == faults' = IF ok THEN faults ELSE faults + 1

Response(status, headers, body) ==
  [status |-> status, headers |-> headers, body |-> body]

InitJobs == [id \in JobIds |-> IF id = "a" THEN InitA ELSE InitB]

\* what is kept of the invocation that ran first when a second one is run
\* from the same store state: its request, the outcomes of its calls, its
\* effects and response, and the store it left
Summary(r, js, b) ==
  [set |-> TRUE, conversionId |-> r.conversionId, userId |-> r.userId,
   failed |-> r.failed, cad |-> r.cad, eff |-> r.eff, cadReq |-> r.cadReq,
   resp |-> r.resp, jobs |-> js, bucket |-> b]
NoRun == [Summary(Idle, <<>>, <<>>) EXCEPT !.set = FALSE]

Init ==
  /\ jobs = InitJobs
  /\ \E n \in MetalRowsOfA :
       metal_specs = [id \in JobIds |->
                        IF id = "a" THEN [k \in 1..n |-> MetalRow]
                                    ELSE <<MetalRow>>]
  /\ bucket = <<>>
  /\ gemstone_specs = [id \in JobIds |->
                         IF id = "a" THEN <<GemRow>> ELSE <<>>]
  /\ inv = [i \in Slots |-> Idle]
  /\ started = 0
  /\ faults = 0
  /\ lastFinal = [id \in JobIds |-> "none"]
  /\ first = NoRun

\* the dispatch without the try/catch around req.json(): the rejection
\* escapes the handler and the server runtime answers
Dispatch_NoCatch(base, m, bk, body) ==
  IF m = "OPTIONS"
    THEN [base EXCEPT !.pc = "done", !.resp = Response(204, CORS, <<>>)]
  ELSE IF m # "POST"
    THEN [base EXCEPT !.pc = "done",
            !.resp = Response(405, JsonCORS, [error |-> "Method Not Allowed"])]
  ELSE IF bk \in {"invalid", "null"}
    THEN [base EXCEPT !.pc = "done",
            !.resp = Response(500, NoHeaders, "Internal Server Error")]
  ELSE [base EXCEPT !.pc = "lookup", !.conversionId = body.conversionId,
                    !.userId = body.userId]

\* the method test placed before the preflight test
Dispatch_MethodFirst(base, m, bk, body) ==
  IF m # "POST"
    THEN [base EXCEPT !.pc = "done",
            !.resp = Response(405, JsonCORS, [error |-> "Method Not Allowed"])]
  ELSE IF bk = "invalid"
    THEN [base EXCEPT !.pc = "done",
            !.resp = Response(400, JsonCORS, [error |-> "Invalid JSON"])]
  ELSE IF bk = "null"
    THEN [base EXCEPT !.pc = "done",
            !.resp = Response(500, NoHeaders, "Internal Server Error")]
  ELSE [base EXCEPT !.pc = "lookup", !.conversionId = body.conversionId,
                    !.userId = body.userId]

\* the answer of the handler to a request, before any await
Dispatch(base, m, bk, body) ==
  IF m = "OPTIONS"
    THEN [base EXCEPT !.pc = "done", !.resp = Response(204, CORS, <<>>)]
  ELSE IF m # "POST"
    THEN [base EXCEPT !.pc = "done",
            !.resp = Response(405, JsonCORS, [error |-> "Method Not Allowed"])]
  ELSE IF bk = "invalid"
    THEN [base EXCEPT !.pc = "done",
            !.resp = Response(400, JsonCORS, [error |-> "Invalid JSON"])]
  ELSE IF bk = "null"
    \* destructuring null throws outside the try block: the server runtime
    \* answers for the handler
    THEN [base EXCEPT !.pc = "done",
            !.resp = Response(500, NoHeaders, "Internal Server Error")]
  ELSE [base EXCEPT !.pc = "lookup", !.conversionId = body.conversionId,
                    !.userId = body.userId]

\* slot i is the lowest free one and one more request may be served
Free(i) ==
  /\ ~Running(i)
  /\ \A j \in Slots : j < i => Running(j)
  /\ started < MaxInv

(* lines 21-43: method dispatch, body parsing, destructuring of one request *)
(* with method m whose body is of kind bk                                   *)
Accept(i, m, bk, body) ==
  /\ started' = started + 1
  /\ LET base == [Idle EXCEPT !.method = m, !.bodyKind = bk,
                              !.body = IF bk = "object" THEN body ELSE <<>>]
     IN Becomes(i, Dispatch(base, m, bk, body))
  /\ UNCHANGED <<jobs, gemstone_specs, metal_specs, bucket, faults, lastFinal,
               first>>

\* a request takes the lowest free slot
Receive(i) ==
  /\ Free(i)
  /\ \E m \in Methods, bk \in BodyKinds, body \in Requests :
       Accept(i, m, bk, body)

Step(i, pc) == inv[i].pc = pc
Log(r, e) == [r EXCEPT !.eff = Append(@, e)]
Fail(r, ok, e) == IF ok THEN r ELSE [r EXCEPT !.failed = @ \cup {e}]
Throw(r, e) == [r EXCEPT !.pc = "catch", !.err = e]

\* the lookup in a handler that rejects a request without userId
Lookup_RequireUser(i) ==
  /\ Step(i, "lookup")
  /\ \E ok \in CallOutcomes :
       /\ Charge(ok)
       /\ LET r == Fail(Log(inv[i], "select_job"), ok, "select_job")
              cid == r.conversionId
              conv == IF ok /\ cid \in DOMAIN jobs THEN <<jobs[cid]>> ELSE <<>>
          IN Becomes(i,
               IF conv = <<>> \/ ~Truthy(r.userId)
                 THEN Throw(r, Err("Error", "Conversion not found", ""))
               ELSE IF ~Truthy(conv[1].vectorized_svg_url)
                 THEN Throw([r EXCEPT !.seen = conv[1].status],
                            Err("Error", "No vector SVG URL on conversion", ""))
               ELSE [r EXCEPT !.pc = "setGenerating",
                              !.seen = conv[1].status,
                              !.svgUrl = conv[1].vectorized_svg_url])
  /\ UNCHANGED <<jobs, gemstone_specs, metal_specs, bucket, started, lastFinal,
               first>>

(* lines 46-56: 1) the conversion row must exist, 2) with a vector SVG URL *)
Lookup(i) ==
  /\ Step(i, "lookup")
  /\ \E ok \in CallOutcomes :
       /\ Charge(ok)
       /\ LET r == Fail(Log(inv[i], "select_job"), ok, "select_job")
              cid == r.conversionId
              conv == IF ok /\ cid \in DOMAIN jobs THEN <<jobs[cid]>> ELSE <<>>
          IN Becomes(i,
               IF conv = <<>>
                 THEN Throw(r, Err("Error", "Conversion not found", ""))
               ELSE IF ~Truthy(conv[1].vectorized_svg_url)
                 THEN Throw([r EXCEPT !.seen = conv[1].status],
                            Err("Error", "No vector SVG URL on conversion", ""))
               ELSE [r EXCEPT !.pc = "setGenerating",
                              !.seen = conv[1].status,
                              !.svgUrl = conv[1].vectorized_svg_url])
  /\ UNCHANGED <<jobs, gemstone_specs, metal_specs, bucket, started, lastFinal,
               first>>

\* the step-3 write putting the job back to its initial status
StatusGenerating_Pending == "pending"

StatusGenerating == "generating_cad"

(* lines 58-62: 3) status -> generating_cad; the result is not inspected *)
SetGenerating(i) ==
  /\ Step(i, "setGenerating")
  /\ \E ok \in CallOutcomes :
       /\ Charge(ok)
       /\ jobs' = IF ok
                    THEN UpdateJob(jobs, inv[i].conversionId,
                           [status |-> StatusGenerating, current_step |-> 3])
                    ELSE jobs
       /\ Becomes(i,
            [Fail(Log(inv[i], "update_generating"), ok, "update_generating")
               EXCEPT !.pc = "gemRead"])
  /\ UNCHANGED <<gemstone_specs, metal_specs, bucket, started, lastFinal,
               first>>

(* lines 65-68: gemstone rows; data is null when the read reports an error *)
GemRead(i) ==
  /\ Step(i, "gemRead")
  /\ \E ok \in CallOutcomes :
       /\ Charge(ok)
       /\ Becomes(i,
            [Fail(Log(inv[i], "select_gem"), ok, "select_gem")
               EXCEPT !.pc = "metalRead",
                      !.gemSpecs = IF ok /\ inv[i].conversionId \in DOMAIN gemstone_specs
                                     THEN gemstone_specs[inv[i].conversionId]
                                     ELSE <<>>])
  /\ UNCHANGED <<jobs, gemstone_specs, metal_specs, bucket, started, lastFinal,
               first>>

\* lines 77-93: the payload sent to the CAD service
CadReq(svgUrl, conversionId, gemSpecs, metalSpecs) ==
  [svg_url |-> svgUrl,
   design_id |-> conversionId,
   gemstone_specs |->
     [k \in 1..Len(gemSpecs) |->
        [shape |-> gemSpecs[k].shape,
         size_mm |-> Number(gemSpecs[k].mm_size),
         dia_wt |-> Number(gemSpecs[k].dia_wt),
         quantity |-> gemSpecs[k].quantity,
         setting_type |-> gemSpecs[k].setting_type]],
   metal_specs |-> [type |-> metalSpecs.color,
                    karat |-> metalSpecs.karat,
                    weight_grams |-> Number(metalSpecs.gold_weight),
                    tone |-> metalSpecs.tone]]

\* line 74: if (!metalSpecs) throw
MetalMissing(metalSpecs) == metalSpecs = <<>>

(* lines 69-93: the single metal row, required; then the payload is built *)
MetalRead(i) ==
  /\ Step(i, "metalRead")
  /\ \E ok \in CallOutcomes :
       /\ Charge(ok)
       /\ LET r == Fail(Log(inv[i], "select_metal"), ok, "select_metal")
              cid == r.conversionId
              metalSpecs == IF ok /\ cid \in DOMAIN metal_specs
                              THEN Single(metal_specs[cid]) ELSE <<>>
          IN Becomes(i,
               IF MetalMissing(metalSpecs)
                 THEN Throw(r, Err("Error", "Missing metal specs", ""))
                 ELSE [r EXCEPT !.pc = "cadCall",
                                !.metalSpecs = metalSpecs,
                                !.cadReq = CadReq(r.svgUrl, cid, r.gemSpecs,
                                                  metalSpecs[1])])
  /\ UNCHANGED <<jobs, gemstone_specs, metal_specs, bucket, started, lastFinal,
               first>>

\* what the CAD service may do with the one POST it receives: answer 2xx
\* with the three payloads, 2xx with a body that is not JSON, a non-2xx
\* status with a text body, or no answer before the AbortSignal fires (any
\* other rejection of fetch takes the same path)
CadOutcomes == {"ok", "badjson", "non2xx", "timeout"}

\* the file payloads of a 2xx answer; <<>> would be a field the JSON lacks
CadJson(kind) ==
  [step_file |-> <<"step", "data">>,
   stl_file |-> <<"stl", "data">>,
   obj_file |-> <<"obj", "data">>]

\* the error thrown without the response text interpolated
CadError_NoBody(txt) == Err("Error", "CAD service error: ", "")

\* line 104: new Error(`CAD service error: ${txt}`)
CadError(txt) == Err("Error", "CAD service error: ", txt)

\* the fetch without a signal option: nothing ever aborts it
CadSignal_None == {}

\* line 100: signal: AbortSignal.timeout(300_000), the timers armed on the
\* fetch
CadSignal == {CadTimeoutMs}

\* lines 96-106 after the fetch has settled with outcome kind
CadSettled(r0, kind) ==
  LET r == [Log(r0, "fetch_cad") EXCEPT !.cad = kind] IN
  CASE kind = "timeout" ->
         Throw(r, Err("TimeoutError", "Signal timed out.", ""))
    [] kind = "non2xx" -> Throw(r, CadError(CadErrorBody))
    [] kind = "badjson" ->
         Throw(r, Err("SyntaxError", "Unexpected token", ""))
    [] OTHER -> [r EXCEPT !.pc = "uploadStep", !.cadJson = CadJson(kind)]

(* lines 96-106: the CAD service answers the one POST to ${CAD_URL}/convert *)
CadAnswer(i) ==
  /\ Step(i, "cadCall")
  /\ \E kind \in CadOutcomes \ {"timeout"} : Becomes(i, CadSettled(inv[i], kind))
  /\ UNCHANGED <<jobs, gemstone_specs, metal_specs, bucket, started, faults,
               lastFinal, first>>

(* line 100: the timer of the signal fires before the service has answered *)
CadTimeout(i) ==
  /\ Step(i, "cadCall")
  /\ CadSignal # {}
  /\ Becomes(i, CadSettled(inv[i], "timeout"))
  /\ UNCHANGED <<jobs, gemstone_specs, metal_specs, bucket, started, faults,
               lastFinal, first>>

(* lines 96-106: one POST to ${CAD_URL}/convert, bounded by the timeout *)
CadCall(i) == CadAnswer(i) \/ CadTimeout(i)

\* new Blob([x]): a missing field becomes the text "undefined"
Blob(x) == IF x = <<>> THEN <<"undefined">> ELSE x

\* one awaited bucket.upload(..., {upsert: true}); the result is not inspected
UploadFile(i, pc, fmt, field, next) ==
  /\ Step(i, pc)
  /\ \E ok \in CallOutcomes :
       /\ Charge(ok)
       /\ bucket' = IF ok
                      THEN Upload(bucket, ObjectPath(fmt, inv[i].conversionId),
                                  Blob(inv[i].cadJson[field]))
                      ELSE bucket
       /\ Becomes(i,
            [Fail(Log(inv[i], pc), ok, pc) EXCEPT !.pc = next])
  /\ UNCHANGED <<jobs, gemstone_specs, metal_specs, started, lastFinal, first>>

\* the final update issued right after the first upload
UploadStep_ThenFinalize(i) ==
  UploadFile(i, "uploadStep", "step", "step_file", "finalize")

(* lines 111-114 *)
UploadStep(i) == UploadFile(i, "uploadStep", "step", "step_file", "uploadStl")
(* lines 116-119 *)
UploadStl(i) == UploadFile(i, "uploadStl", "stl", "stl_file", "uploadObj")
(* lines 121-124 *)
UploadObj(i) == UploadFile(i, "uploadObj", "obj", "obj_file", "finalize")

\* a final status write on the job id has been answered by the store:
\* lastFinal keeps the status it carried, or "rejected"
FinalWrite(id, ok, status) ==
  lastFinal' = IF id \in DOMAIN lastFinal
                 THEN [lastFinal EXCEPT ![id] = IF ok THEN status ELSE "rejected"]
                 ELSE lastFinal

\* line 140: new Date().toISOString(), some timestamp
Now == 1

\* the final update without its completion timestamp
CompletedFields_NoTimestamp(id, now) ==
  [status |-> "completed",
   current_step |-> 4,
   cad_file_url |-> getPublicUrl(<<"step", "design", id, "step">>),
   stl_file_url |-> getPublicUrl(<<"stl", "design", id, "stl">>),
   obj_file_url |-> getPublicUrl(<<"obj", "design", id, "obj">>)]

\* the final update without the URL of the OBJ file
CompletedFields_NoObjUrl(id, now) ==
  [status |-> "completed",
   current_step |-> 4,
   cad_file_url |-> getPublicUrl(<<"step", "design", id, "step">>),
   stl_file_url |-> getPublicUrl(<<"stl", "design", id, "stl">>),
   obj_file_url |-> NoUrl,
   completed_at |-> now]

\* lines 134-141: the fields of the final update
CompletedFields(id, now) ==
  [status |-> "completed",
   current_step |-> 4,
   cad_file_url |-> getPublicUrl(ObjectPath("step", id)),
   stl_file_url |-> getPublicUrl(ObjectPath("stl", id)),
   obj_file_url |-> getPublicUrl(ObjectPath("obj", id)),
   completed_at |-> now]

(* lines 127-148: public URLs, 8) finalize, success response; the result  *)
(* of the update is not inspected                                         *)
Finalize(i) ==
  /\ Step(i, "finalize")
  /\ \E ok \in CallOutcomes :
       /\ Charge(ok)
       /\ LET cid == inv[i].conversionId
              fields == CompletedFields(cid, Now)
          IN /\ jobs' = IF ok THEN UpdateJob(jobs, cid, fields) ELSE jobs
             /\ FinalWrite(cid, ok, fields.status)
             /\ Becomes(i,
                  [Fail(Log(Log(Log(Log(inv[i], "url_step"), "url_stl"), "url_obj"),
                            "update_completed"), ok, "update_completed")
                     EXCEPT !.pc = "done",
                            !.urls = <<fields.cad_file_url, fields.stl_file_url,
                                       fields.obj_file_url>>,
                            !.resp = Response(200, CORS,
                                       [success |-> TRUE, conversionId |-> cid])])
  /\ UNCHANGED <<gemstone_specs, metal_specs, bucket, started, first>>

\* line 156: the fields of the update in the catch block
FailedFields(err) ==
  [status |-> "failed", current_step |-> 0, error_message |-> String(err)]

\* the catch block sparing a job that is already completed
FailedWrite_KeepCompleted(js, id, err) ==
  IF id \in DOMAIN js /\ js[id].status = "completed"
    THEN js
    ELSE UpdateJob(js, id, FailedFields(err))

\* the catch block writing with upsert instead of update
FailedWrite_Upsert(js, id, err) == UpdateJob_Upsert(js, id, FailedFields(err))

\* line 157: the row the catch block writes
FailedWrite(js, id, err) == UpdateJob(js, id, FailedFields(err))

(* lines 150-163: mark the job failed if the id is known, answer 500 *)
Catch(i) ==
  /\ Step(i, "catch")
  /\ LET cid == inv[i].conversionId
         resp == Response(500, JsonCORS,
                   [success |-> FALSE, error |-> String(inv[i].err)])
     IN IF Truthy(cid)
          THEN \E ok \in CallOutcomes :
                 /\ Charge(ok)
                 /\ jobs' = IF ok THEN FailedWrite(jobs, cid, inv[i].err)
                                  ELSE jobs
                 /\ FinalWrite(cid, ok, FailedFields(inv[i].err).status)
                 /\ Becomes(i,
                      [Fail(Log(inv[i], "update_failed"), ok, "update_failed")
                         EXCEPT !.pc = "done", !.resp = resp])
          ELSE /\ Becomes(i, [inv[i] EXCEPT !.pc = "done",
                                                       !.resp = resp])
               /\ UNCHANGED <<jobs, faults, lastFinal>>
  /\ UNCHANGED <<gemstone_specs, metal_specs, bucket, started, first>>

\* the steps that end when the job store or the bucket answers
StoreStep(i) ==
  \/ Lookup(i)
  \/ SetGenerating(i)
  \/ GemRead(i)
  \/ MetalRead(i)
  \/ UploadStep(i)
  \/ UploadStl(i)
  \/ UploadObj(i)
  \/ Finalize(i)
  \/ Catch(i)

Handle(i) == StoreStep(i) \/ CadCall(i)

Next == \E i \in Slots : Receive(i) \/ Handle(i)

Spec == Init /\ [][Next]_vars

\* requests served one after another: a request is received only when no
\* other invocation is in flight
ReceiveAlone(i) == (\A j \in Slots : ~Running(j)) /\ Receive(i)
NextSeq == \E i \in Slots : ReceiveAlone(i) \/ Handle(i)
SpecSeq == Init /\ [][NextSeq]_vars

\* every call to the job store and the bucket is eventually answered, and an
\* armed timer eventually fires; nothing obliges the CAD service to answer
Fairness ==
  \A i \in Slots : WF_vars(StoreStep(i)) /\ WF_vars(CadTimeout(i))
\* requests served one after another, under these assumptions
SpecLive == Init /\ [][NextSeq]_vars /\ Fairness

\* the bodies of a pair of requests that differ in userId only
PairRequests ==
  [conversionId : {"a", "b", "x", UNDEFINED}, userId : {"u1", "u2", UNDEFINED}]

\* the first request of a pair
ReceiveFirst(i) ==
  /\ started = 0 /\ Free(i)
  /\ \E body \in PairRequests : Accept(i, "POST", "object", body)

\* the first invocation has returned: what it did is kept in `first`, the
\* store is put back to the state it started from, and a request with the
\* same conversionId and another userId is received
Twin(i) ==
  /\ Step(i, "done") /\ ~first.set
  /\ started < MaxInv
  /\ started' = started + 1
  /\ first' = Summary(inv[i], jobs, bucket)
  /\ jobs' = InitJobs
  /\ bucket' = <<>>
  /\ faults' = 0
  /\ lastFinal' = [id \in JobIds |-> "none"]
  /\ \E body \in PairRequests :
       /\ body.conversionId = inv[i].conversionId
       /\ body.userId # inv[i].userId
       /\ LET base == [Idle EXCEPT !.method = "POST", !.bodyKind = "object",
                                   !.body = body]
          IN inv' = [j \in Slots |->
                       IF j = i THEN Dispatch(base, "POST", "object", body)
                                ELSE Idle]
  /\ UNCHANGED <<gemstone_specs, metal_specs>>

NextPair == \E i \in Slots : ReceiveFirst(i) \/ Twin(i) \/ Handle(i)
SpecPair == Init /\ [][NextPair]_vars

TypeOK ==
  /\ \A id \in DOMAIN jobs :
       jobs[id].status \in {"pending", "generating_cad", "completed", "failed"}
  /\ DOMAIN jobs = JobIds
  /\ started \in 0..MaxInv
  /\ faults \in 0..MaxFaults
  /\ lastFinal \in [JobIds -> {"none", "completed", "failed", "rejected"}]

(* ======================= properties of the handler ===================== *)
Done(i) == inv[i].pc = "done"
\* invocation i serves a POST whose body parsed to an object
Post(i) == inv[i].method = "POST" /\ inv[i].bodyKind = "object"
JobExists(i) == inv[i].conversionId \in DOMAIN jobs
Job(i) == jobs[inv[i].conversionId]
UploadEffects == {"uploadStep", "uploadStl", "uploadObj"}
Did(i, e) == \E k \in 1..Len(inv[i].eff) : inv[i].eff[k] = e
DidUpload(i) == \E e \in UploadEffects : Did(i, e)
\* the store rejected the write e of invocation i
Rejected(i, e) == e \in inv[i].failed
\* the text a CAD error message carries after its fixed prefix
ErrorDetail(msg) == msg[4]

\* the request of C1: the job exists with its artifact URL and exactly one
\* metal row, and the CAD service answered 2xx with the three payloads
HappyRequest(i) ==
  /\ Post(i) /\ JobExists(i)
  /\ Truthy(Job(i).vectorized_svg_url)
  /\ Len(metal_specs[inv[i].conversionId]) = 1
  /\ inv[i].cad = "ok"

\* C1: when the job exists with an artifact URL and exactly one metal row and
\* the CAD service answers 2xx with three payloads, then at the return of the
\* handler (its final update applied by the store) the job is "completed"
\* with cad_file_url, stl_file_url, obj_file_url and completed_at set, and
\* the response is 200 {success: true, conversionId}.
C1_CompletedOnCadSuccess ==
  \A i \in Slots :
    (Done(i) /\ HappyRequest(i) /\ ~Rejected(i, "update_completed")) =>
      /\ Job(i).status = "completed"
      /\ Job(i).cad_file_url # NoUrl
      /\ Job(i).stl_file_url # NoUrl
      /\ Job(i).obj_file_url # NoUrl
      /\ Job(i).completed_at # NoTime
      /\ inv[i].resp.status = 200
      /\ inv[i].resp.body = [success |-> TRUE,
                             conversionId |-> inv[i].conversionId]

C1_Witness ==
  \E i \in Slots :
    /\ Done(i) /\ HappyRequest(i) /\ ~Rejected(i, "update_completed")
    /\ Did(i, "update_completed")
    /\ Job(i).status = "completed"

\* some step of the protected region of invocation i failed
SomeStepFailed(i) ==
  \/ inv[i].err # NoError
  \/ inv[i].failed \ {"update_failed"} # {}

\* C2: for a POST with a known conversion id, if any step of the protected
\* region fails (lookup, artifact check, status write, spec reads, CAD call,
\* response parsing, uploads, final write), the job is updated to "failed"
\* with current_step 0 and error_message the stringified error, and the
\* response is 500 {success: false, error}.
C2_AnyFailureMarksFailed ==
  \A i \in Slots :
    (/\ Done(i) /\ Post(i) /\ JobExists(i)
     /\ SomeStepFailed(i)
     /\ ~Rejected(i, "update_failed")) =>
      /\ inv[i].resp.status = 500
      /\ Job(i).status = "failed"
      /\ Job(i).current_step = 0
      /\ Job(i).error_message = String(inv[i].err)

\* C3: when the CAD service answers with a non-2xx status, the job ends
\* "failed" (the update of the catch block applied by the store), its
\* error_message carries the response body, and the invocation attempted no
\* upload.
C3_CadErrorMarksFailed ==
  \A i \in Slots :
    (Done(i) /\ inv[i].cad = "non2xx") =>
      /\ ~DidUpload(i)
      /\ inv[i].resp.status = 500
      /\ ~Rejected(i, "update_failed") =>
            /\ Job(i).status = "failed"
            /\ ErrorDetail(Job(i).error_message) = CadErrorBody

C3_Witness ==
  \E i \in Slots :
    /\ Done(i) /\ inv[i].cad = "non2xx" /\ ~Rejected(i, "update_failed")
    /\ Did(i, "fetch_cad") /\ Did(i, "update_failed")
    /\ Job(i).status = "failed"

\* the job of invocation i exists with an artifact URL and has no metal row
NoMetalRequest(i) ==
  /\ Post(i) /\ JobExists(i)
  /\ Truthy(Job(i).vectorized_svg_url)
  /\ Len(metal_specs[inv[i].conversionId]) = 0

\* C4: when the job exists with an artifact URL but has no metal row, the
\* invocation never calls the CAD service and never uploads, and the job ends
\* "failed" (the update of the catch block applied by the store).
C4_NoMetalAborts ==
  \A i \in Slots :
    NoMetalRequest(i) =>
      /\ ~Did(i, "fetch_cad")
      /\ ~DidUpload(i)
      /\ inv[i].pc \notin {"cadCall", "uploadStep", "uploadStl", "uploadObj",
                            "finalize"}
      /\ (Done(i) /\ ~Rejected(i, "update_failed")) =>
            /\ Job(i).status = "failed"
            /\ inv[i].resp.status = 500

C4_Witness ==
  \E i \in Slots :
    /\ Done(i) /\ NoMetalRequest(i) /\ ~Rejected(i, "update_failed")
    /\ Did(i, "select_metal")
    /\ inv[i].err = Err("Error", "Missing metal specs", "")
    /\ Job(i).status = "failed"

\* C5: a request whose conversionId matches no row is answered with the
\* failure response; the store still has no row with that id afterwards (the
\* update of the catch block creates none); no CAD call, no upload.
C5_UnknownJobNotCreated ==
  /\ DOMAIN jobs = JobIds
  /\ \A i \in Slots :
       (Post(i) /\ inv[i].conversionId \notin JobIds) =>
         /\ ~Did(i, "fetch_cad")
         /\ ~DidUpload(i)
         /\ Done(i) =>
               /\ inv[i].resp.status = 500
               /\ inv[i].resp.body.success = FALSE
               /\ inv[i].resp.body.error =
                     String(Err("Error", "Conversion not found", ""))

C5_Witness ==
  \E i \in Slots :
    /\ Done(i) /\ Post(i) /\ inv[i].conversionId = "x"
    /\ Did(i, "update_failed") /\ ~Rejected(i, "update_failed")
    /\ "x" \notin DOMAIN jobs

\* the objects the bucket holds for conversion id
ObjectsOf(id) == {p \in DOMAIN bucket : p[3] = id}

\* invocation i found its job already completed, got a 2xx answer with the
\* three payloads from the CAD service, and no call of it was rejected
RerunOfCompleted(i) ==
  /\ Post(i) /\ inv[i].seen = "completed"
  /\ inv[i].cad = "ok" /\ inv[i].failed = {}

\* C6: an invocation that follows a completed one for the same conversion id,
\* with a successful CAD response, ends without error: it has overwritten the
\* same three storage paths (the bucket holds exactly three objects for the
\* id, each with the new payload) and the job is "completed" with its three
\* URLs.
C6_RerunOverwrites ==
  \A i \in Slots :
    (Done(i) /\ RerunOfCompleted(i)) =>
      LET id == inv[i].conversionId IN
      /\ inv[i].resp.status = 200
      /\ inv[i].err = NoError
      /\ Cardinality(ObjectsOf(id)) = 3
      /\ ObjectsOf(id) = {ObjectPath(f, id) : f \in Formats}
      /\ bucket[ObjectPath("step", id)] = Blob(inv[i].cadJson.step_file)
      /\ bucket[ObjectPath("stl", id)] = Blob(inv[i].cadJson.stl_file)
      /\ bucket[ObjectPath("obj", id)] = Blob(inv[i].cadJson.obj_file)
      /\ Job(i).status = "completed"
      /\ Job(i).cad_file_url = getPublicUrl(ObjectPath("step", id))
      /\ Job(i).stl_file_url = getPublicUrl(ObjectPath("stl", id))
      /\ Job(i).obj_file_url = getPublicUrl(ObjectPath("obj", id))

C6_Witness ==
  \E i \in Slots :
    /\ Done(i) /\ RerunOfCompleted(i)
    /\ started = 2
    /\ Did(i, "uploadObj") /\ Did(i, "update_completed")
    /\ Job(i).status = "completed"

StatusChanged(id) == jobs'[id].status # jobs[id].status
Moves(id, from, to) == jobs[id].status = from /\ jobs'[id].status = to

\* C7: every change of a job's status is pending -> generating_cad,
\* generating_cad -> completed, or any status -> failed; no invocation moves a
\* job from completed or failed back to generating_cad.
C7_LinearTransitions ==
  [][\A id \in DOMAIN jobs :
       StatusChanged(id) =>
         \/ Moves(id, "pending", "generating_cad")
         \/ Moves(id, "generating_cad", "completed")
         \/ jobs'[id].status = "failed"]_vars

\* C7 as amended: every change of a job's status is made by the write of an
\* invocation for that job, to "generating_cad" by its step-3 write, to
\* "completed" by its final write, to "failed" by its catch block, whatever
\* the status was before; no change leads back to "pending".
C7_TransitionsByWrite ==
  [][\A id \in DOMAIN jobs :
       StatusChanged(id) =>
         \E i \in Slots :
           /\ inv[i].conversionId = id
           /\ \/ Step(i, "setGenerating") /\ jobs'[id].status = "generating_cad"
              \/ Step(i, "finalize") /\ jobs'[id].status = "completed"
              \/ Step(i, "catch") /\ jobs'[id].status = "failed"]_vars

\* an invocation has just moved a completed job back to generating_cad
C7_Witness ==
  \E i \in Slots :
    /\ inv[i].seen = "completed" /\ Step(i, "gemRead")
    /\ ~Rejected(i, "update_generating")
    /\ Job(i).status = "generating_cad"

\* an upload of invocation i reported an error
UploadFailed(i) == inv[i].failed \cap UploadEffects # {}

\* C8: if one of the three uploads reports a failure, the invocation ends
\* with the job marked "failed" and a 500 response, and it never writes the
\* job as "completed".
C8_UploadFailureMarksFailed ==
  \A i \in Slots :
    (Done(i) /\ UploadFailed(i)) =>
      /\ inv[i].resp.status = 500
      /\ ~Did(i, "update_completed")
      /\ Job(i).status = "failed"

\* the body of invocation i parsed to an object that lacks a required field
LacksField(i) ==
  /\ Post(i)
  /\ \/ inv[i].body.conversionId = UNDEFINED
     \/ inv[i].body.userId = UNDEFINED

JobWrites == {"update_generating", "update_completed", "update_failed"}

\* C9: a POST whose body parses as JSON but lacks conversionId or userId is
\* answered with a 400-class response and writes no job.
C9_MissingFieldIs400 ==
  \A i \in Slots :
    LacksField(i) =>
      /\ \A e \in JobWrites : ~Did(i, e)
      /\ Done(i) => inv[i].resp.status \in 400..499

\* invocation i has just answered a POST whose body is not JSON
AnswersInvalidJson(i) ==
  /\ inv'[i] # inv[i]
  /\ inv'[i].pc = "done"
  /\ inv'[i].method = "POST" /\ inv'[i].bodyKind = "invalid"

\* C10: a POST whose body is not parseable JSON is answered with
\* 400 {error: "Invalid JSON"}; the handler reads and writes no job, calls no
\* CAD service, uploads nothing: every job, spec row and object is unchanged.
C10_InvalidJsonTouchesNothing ==
  [][\A i \in Slots :
       AnswersInvalidJson(i) =>
         /\ inv'[i].resp.status = 400
         /\ inv'[i].resp.headers = JsonCORS
         /\ inv'[i].resp.body = [error |-> "Invalid JSON"]
         /\ inv'[i].eff = <<>>
         /\ UNCHANGED <<jobs, gemstone_specs, metal_specs, bucket>>]_vars

C10_Witness ==
  \E i \in Slots :
    /\ Done(i) /\ inv[i].method = "POST" /\ inv[i].bodyKind = "invalid"
    /\ inv[i].resp.status = 400

\* the job of invocation i exists but its vectorized_svg_url is absent or empty
NoArtifactRequest(i) ==
  /\ Post(i) /\ JobExists(i)
  /\ Job(i).vectorized_svg_url \in {UNDEFINED, ""}

\* C11: when the job exists but has no vector artifact URL, the invocation
\* fails before the "generating_cad" write: it never issues that write, reads
\* no gemstone or metal specs, never calls the CAD service and uploads
\* nothing; it answers 500 and (its catch-block write applied by the store)
\* the job ends "failed".
C11_NoArtifactFailsEarly ==
  \A i \in Slots :
    NoArtifactRequest(i) =>
      /\ inv[i].pc \in {"lookup", "catch", "done"}
      /\ \A e \in {"update_generating", "select_gem", "select_metal",
                    "fetch_cad", "update_completed"} \cup UploadEffects :
           ~Did(i, e)
      /\ Done(i) =>
           /\ inv[i].resp.status = 500
           /\ ~Rejected(i, "update_failed") => Job(i).status = "failed"

C11_Witness ==
  \E i \in Slots :
    /\ Done(i) /\ NoArtifactRequest(i)
    /\ inv[i].seen = "pending"
    /\ Job(i).status = "failed"
    /\ Job(i).error_message =
         String(Err("Error", "No vector SVG URL on conversion", ""))

\* the fetch of invocation i was aborted by the timer
TimedOut(i) == inv[i].cad = "timeout"

\* C12: a CAD call that is not answered before the timeout is abandoned as a
\* transport failure: the invocation does not stay in the call forever, it
\* takes the failure path without any upload and without the "completed"
\* write, answers 500 and (its catch-block write applied by the store) leaves
\* the job "failed".
C12_TimeoutAborts ==
  /\ \A i \in Slots : Step(i, "cadCall") ~> ~Step(i, "cadCall")
  /\ \A i \in Slots : TimedOut(i) ~> (Done(i) /\ TimedOut(i))
  /\ [](\A i \in Slots :
          TimedOut(i) =>
            /\ inv[i].pc \in {"catch", "done"}
            /\ inv[i].err = Err("TimeoutError", "Signal timed out.", "")
            /\ ~DidUpload(i) /\ ~Did(i, "update_completed")
            /\ Done(i) =>
                 /\ inv[i].resp.status = 500
                 /\ ~Rejected(i, "update_failed") => Job(i).status = "failed")

C12_Witness ==
  \E i \in Slots :
    /\ Done(i) /\ TimedOut(i)
    /\ Job(i).status = "failed"
    /\ inv[i].resp.status = 500
    /\ ObjectsOf(inv[i].conversionId) = {}

\* C13: no step of any invocation inserts or deletes a job (the set of job
\* ids stays what it was) and none writes the gemstone or the metal spec
\* table.
C13_JobSetAndSpecsUntouched ==
  [][/\ DOMAIN jobs' = DOMAIN jobs
     /\ gemstone_specs' = gemstone_specs
     /\ metal_specs' = metal_specs]_vars

C13_Witness ==
  \E i \in Slots :
    /\ Done(i) /\ Post(i)
    /\ Did(i, "update_generating") /\ Did(i, "update_completed")
    /\ inv[i].failed = {}
    /\ DOMAIN jobs = JobIds
    /\ metal_specs["a"] = <<MetalRow>> /\ gemstone_specs["a"] = <<GemRow>>

\* invocation i has just answered an OPTIONS request
AnswersOptions(i) ==
  /\ inv'[i] # inv[i]
  /\ inv'[i].pc = "done"
  /\ inv'[i].method = "OPTIONS"

\* C14: an OPTIONS request is answered 204 with the fixed CORS headers and no
\* body, whatever body or job id it carries; the handler reads and writes no
\* job, calls no CAD service and uploads nothing.
C14_OptionsIsPreflightOnly ==
  [][\A i \in Slots :
       AnswersOptions(i) =>
         /\ inv'[i].resp = Response(204, CORS, <<>>)
         /\ inv'[i].eff = <<>>
         /\ UNCHANGED <<jobs, gemstone_specs, metal_specs, bucket, faults>>]_vars

C14_Witness ==
  \E i \in Slots :
    /\ Done(i) /\ inv[i].method = "OPTIONS"
    /\ inv[i].bodyKind = "object" /\ inv[i].body.conversionId = "a"
    /\ inv[i].resp.status = 204
    /\ jobs["a"] = InitA

\* the effects of one invocation that runs the whole pipeline, in the order
\* of the code: the job lookup, then the effects C15 lists
Pipeline ==
  <<"select_job", "update_generating", "select_gem", "select_metal",
    "fetch_cad", "uploadStep", "uploadStl", "uploadObj",
    "url_step", "url_stl", "url_obj", "update_completed">>
IsPrefix(s, t) ==
  /\ Len(s) <= Len(t)
  /\ \A k \in 1..Len(s) : s[k] = t[k]
\* invocation i serves a POST whose body names a conversion
NamesConversion(i) == Post(i) /\ Truthy(inv[i].conversionId)

\* C15: within one invocation that names a conversion the effects occur in
\* the order generating_cad write, gemstone read, metal read, CAD POST, upload
\* of STEP, STL, OBJ, three URL resolutions, "completed" write, each at most
\* once; a failing invocation has done a prefix of that sequence followed by
\* the single "failed" write; an upload happens only after a 2xx answer of
\* the CAD service, and a returned invocation has issued exactly one final
\* status write.
C15_EffectsInOrderOnce ==
  \A i \in Slots :
    NamesConversion(i) =>
      LET e == inv[i].eff
          n == Len(e)
      IN /\ \/ IsPrefix(e, Pipeline)
            \/ /\ n >= 1 /\ e[n] = "update_failed"
               /\ IsPrefix(SubSeq(e, 1, n - 1), Pipeline)
               /\ ~Did(i, "update_completed")
         /\ DidUpload(i) => inv[i].cad = "ok"
         /\ Done(i) => (e = Pipeline \/ e[n] = "update_failed")

C15_Witness ==
  \E i \in Slots :
    /\ Done(i) /\ NamesConversion(i)
    /\ inv[i].eff = Pipeline
    /\ inv[i].resp.status = 200

\* invocation i serves a POST for an existing job that has its vector artifact
ArtifactRequest(i) ==
  /\ Post(i) /\ JobExists(i)
  /\ Truthy(Job(i).vectorized_svg_url)

\* C16: when an invocation for an existing job with a vector artifact, served
\* alone, has returned its response, the job is "completed" or "failed" and
\* not left in "generating_cad", also when the store reported an error on a
\* status write of the try block (a rejected catch-block write, after which
\* nothing is left to try, is not counted).
C16_ReturnsWithFinalStatus ==
  \A i \in Slots :
    (Done(i) /\ ArtifactRequest(i) /\ ~Rejected(i, "update_failed")) =>
      Job(i).status \in {"completed", "failed"}

\* every invocation that names job id has returned
Quiescent(id) == \A i \in Slots : Running(i) => inv[i].conversionId # id

\* C17: once the invocations on one job id have all returned (two of them
\* having interleaved in any way), the status of the job is the one carried
\* by the final status write ("completed" or "failed") that the store applied
\* last, that write being the last of the final writes issued: the job is
\* neither "generating_cad" nor "pending" then.
C17_LastFinalWriteWins ==
  \A id \in JobIds :
    (Quiescent(id) /\ lastFinal[id] \in {"completed", "failed"}) =>
      jobs[id].status = lastFinal[id]

C17_Witness ==
  \E i \in Slots :
    /\ Done(i) /\ inv[i].conversionId = "a"
    /\ inv[i].seen = "generating_cad"
    /\ faults = 0 /\ started = 2
    /\ Quiescent("a")
    /\ jobs["a"].completed_at # NoTime /\ jobs["a"].error_message # NoError
    /\ lastFinal["a"] = "failed" /\ jobs["a"].status = "failed"

\* the three file URLs and the completion timestamp of a job row are set
HasCadFiles(row) ==
  /\ row.cad_file_url # NoUrl
  /\ row.stl_file_url # NoUrl
  /\ row.obj_file_url # NoUrl
  /\ row.completed_at # NoTime

\* C18: in every reachable state a job whose status is "completed" has
\* cad_file_url, stl_file_url, obj_file_url and completed_at set, and no step
\* (in particular neither the generating_cad write nor the failed write)
\* clears these fields once they are set.
C18_CompletedHasFiles ==
  /\ [](\A id \in DOMAIN jobs :
          jobs[id].status = "completed" => HasCadFiles(jobs[id]))
  /\ [][\A id \in DOMAIN jobs :
          HasCadFiles(jobs[id]) => HasCadFiles(jobs'[id])]_vars

C18_Witness ==
  /\ jobs["a"].status = "completed"
  /\ jobs["a"].error_message # NoError
  /\ HasCadFiles(jobs["a"])
  /\ faults > 0

\* invocation i takes the step
Actor(i) == Running(i) /\ inv'[i] # inv[i]
\* the three storage paths of conversion id
PathsOf(id) == {<<f, "design", id, f>> : f \in {"step", "stl", "obj"}}

\* C19: a step changes the job record of id X only when it is a step of an
\* invocation for X, and it creates or overwrites a stored object only at one
\* of step/design_X.step, stl/design_X.stl, obj/design_X.obj of the
\* invocation's own X; no object is removed.  So the job record and the
\* objects of every other id are unchanged, in any interleaving.
C19_WritesOnlyOwnJobAndPaths ==
  [][/\ \A id \in DOMAIN jobs :
          jobs'[id] # jobs[id] =>
            \E i \in Slots : Actor(i) /\ inv[i].conversionId = id
     /\ \A p \in DOMAIN bucket' :
          (p \notin DOMAIN bucket \/ bucket'[p] # bucket[p]) =>
            \E i \in Slots : Actor(i) /\ p \in PathsOf(inv[i].conversionId)
     /\ DOMAIN bucket \subseteq DOMAIN bucket']_vars

C19_Witness ==
  \E i, j \in Slots :
    /\ Done(i) /\ inv[i].conversionId = "a"
    /\ Did(i, "update_completed") /\ inv[i].failed = {}
    /\ Running(j) /\ inv[j].conversionId = "b"
    /\ jobs["a"].status = "completed"
    /\ ObjectsOf("a") = PathsOf("a")
    /\ jobs["b"] = InitB
    /\ ObjectsOf("b") = {}

\* the calls made by both invocation i and the first invocation had the same
\* outcomes: the same store and storage calls were rejected and the CAD
\* service, where both called it, did the same
SameOutcomes(i) ==
  /\ inv[i].failed = first.failed
  /\ inv[i].cad = first.cad \/ "none" \in {inv[i].cad, first.cad}

\* C20: two invocations run from the same store state with the same
\* conversionId and the same outcomes of their external calls, but another
\* or no userId, return the same response, perform the same reads, writes,
\* CAD call and uploads with the same CAD request, and leave the same jobs
\* and objects.
C20_UserIdIsIgnored ==
  \A i \in Slots :
    (Done(i) /\ first.set /\ SameOutcomes(i)) =>
      /\ inv[i].conversionId = first.conversionId
      /\ inv[i].userId # first.userId
      /\ inv[i].resp.status = first.resp.status
      /\ inv[i].resp = first.resp
      /\ inv[i].eff = first.eff
      /\ inv[i].cadReq = first.cadReq
      /\ jobs = first.jobs
      /\ bucket = first.bucket

C20_Witness ==
  \E i \in Slots :
    /\ Done(i) /\ first.set /\ SameOutcomes(i)
    /\ first.userId = "u1" /\ inv[i].userId = UNDEFINED
    /\ inv[i].conversionId = "a"
    /\ inv[i].resp.status = 200 /\ first.resp.status = 200
    /\ Did(i, "fetch_cad") /\ DidUpload(i)
    /\ jobs["a"].status = "completed"
====
